---- MODULE Spec2Model ----
(***************************************************************************)
(* pdf-to-image: one run of main, in the three versions of the program     *)
(* kept in the repository (src/main.go, src/unnamed/part_000,              *)
(* src/unnamed/part_001).  A run starts after flag.Parse() has accepted    *)
(* the command line (at least one flag was given).  The renderer           *)
(* (go-fitz), the JPEG encoder and the filesystem are the environment:     *)
(* each of their calls either succeeds or returns an error.                *)
(***************************************************************************)
EXTENDS Integers, Sequences, FiniteSets, TLC

VARIABLES
    variant,     \* which version of the program runs
    startPgF,    \* -s
    endPgF,      \* -e
    appendF,     \* -a
    chunkSizeF,  \* -c
    docPages,    \* the page count of the input document (doc.NumPage())
    dirExists,   \* whether the output directory exists
    dir,         \* the output directory: entry name -> content
    dir0,        \* the output directory as it was at startup (history)
    pc,          \* position of the run
    exitCode,    \* -1 while running, then the exit status of the process
    err,         \* the call that returned an error, "none" when none did
    totalPages, startPage, endPage, remPages, curStart, curEnd, count,  \* main
    n, pcount, fileOpen,                                    \* processChunk
    handles,     \* every renderer handle opened so far: [owner, closes]
    rendered,    \* every doc.Image call that succeeded: <<page, handle, chunk>>
    chunks,      \* the (start, end) pairs passed to processChunk, in order
    progress     \* the (tot, cur) pairs passed to part_001's logProgress

vars == <<variant, startPgF, endPgF, appendF, chunkSizeF, docPages, dirExists,
          dir, dir0, pc, exitCode, err, totalPages, startPage, endPage,
          remPages, curStart, curEnd, count, n, pcount, fileOpen, handles,
          rendered, chunks, progress>>

(* ------------------------------ bounds -------------------------------- *)
MaxPages == 4       \* documents of 0..MaxPages pages
MaxFlag == 4        \* -s in 0..MaxFlag, -e in -1..MaxFlag
MaxChunk == 2       \* -c up to MaxChunk
MaxNegChunk == 1    \* -c down to -MaxNegChunk
MaxIter == 6        \* iterations of main's chunk loop that are explored

Variants == {"main.go", "part_000", "part_001"}
OldNames == {"001.jpg", "notes.txt"}   \* what the directory may hold at startup

(* --------------------------- program constants ------------------------ *)
SYMBOL_WIDTH == 20
pollFreq == 5
ClearAfter == 5

(* ------------------------------ helpers -------------------------------- *)
\* intMin(a, b) of src/main.go
IntMin2(a, b) == IF a < b THEN a ELSE b

\* the loop of the variadic intMin: best over vals[i..], starting from best
RECURSIVE IntMinFrom(_, _, _)
IntMinFrom(vals, i, best) ==
    IF i > Len(vals) THEN best
    ELSE IntMinFrom(vals, i + 1, IF vals[i] < best THEN vals[i] ELSE best)

\* intMin(vals ...int) of part_000 and part_001 (never called without arguments)
IntMin(vals) == IF Len(vals) = 1 THEN vals[1] ELSE IntMinFrom(vals, 2, vals[1])

\* startPage as main resolves it from the flags
ResolveStart(s, e) == IF s > 0 /\ s <= e THEN s - 1 ELSE 0

\* endPage as main resolves it from -e and the page count
ResolveEnd(e, total) == IF e < 0 \/ e > total THEN total ELSE e

\* curEnd of the first chunk
FirstCurEnd(v, sp, rem, c, total) ==
    IF v = "main.go" THEN IntMin2(sp + c, total)
    ELSE IntMin(<<sp + rem, sp + c, total>>)

\* curEnd of every later chunk
NextCurEnd(v, ce, c, total) ==
    IF v = "main.go" THEN IntMin2(ce + c, total) ELSE IntMin(<<ce + c, total>>)

\* fmt.Sprintf("%03d.jpg", n+1)
FileName(page) ==
    LET k == page + 1
    IN  (IF k < 0 THEN "-" \o (IF -k < 10 THEN "0" ELSE "") \o ToString(-k)
         ELSE IF k < 10 THEN "00" \o ToString(k)
         ELSE IF k < 100 THEN "0" \o ToString(k)
         ELSE ToString(k)) \o ".jpg"

\* math.Ceil(a / b) for integers a, b with b # 0
CeilDiv(a, b) == IF b > 0 THEN -((-a) \div b) ELSE -(a \div (-b))

\* symCnt of logProgress (part_001), for tot # 0
SymCnt(tot, cur) == CeilDiv(SYMBOL_WIDTH * cur, tot)

\* What a call logProgress(tot, cur) of part_001 does: strings.Repeat panics
\* on a negative count.  With tot = 0 the quotient is NaN or an infinity and
\* its conversion to int is implementation-dependent: either outcome.
LogProgressOutcomes(tot, cur) ==
    IF tot = 0 THEN {"ok", "panic"}
    ELSE IF SymCnt(tot, cur) < 0 \/ SYMBOL_WIDTH - SymCnt(tot, cur) < 0
         THEN {"panic"} ELSE {"ok"}

\* What a call logProgress(n, c) of main.go and part_000 does: past
\* ClearAfter pages it runs clearTerminal, which ends the process with
\* log.Fatal when the clear command fails on linux.
OldLogProgressOutcomes(c) == IF c > ClearAfter THEN {"ok", "fatal"} ELSE {"ok"}

\* doc.Image(page): an error for a page the document does not have
RenderErrors(page) == IF page \in 0..(docPages - 1) THEN BOOLEAN ELSE {TRUE}

Restrict(d, keep) == [x \in keep |-> d[x]]

\* a removeAllFiles that reads one directory entry instead of all of them
\* (Readdirnames(1)) and removes only that one
RemoveAllFilesFirstOnly(d) ==
    IF DOMAIN d = {} THEN {[dir |-> d, e |-> FALSE]}
    ELSE {[dir |-> Restrict(d, DOMAIN d \ {x}), e |-> FALSE] : x \in DOMAIN d}

\* removeAllFiles(dir): every entry removed and nil, or an error (from
\* os.Open, Readdirnames or one os.RemoveAll) with some entries left
RemoveAllFilesOutcomes(d) ==
    {[dir |-> Restrict(d, {}), e |-> FALSE]}
    \cup {[dir |-> Restrict(d, keep), e |-> TRUE] :
            keep \in ((SUBSET DOMAIN d) \ {{}}) \cup {DOMAIN d}}

\* os.Create(name): the entry exists and is empty
CreateEntry(d, name) ==
    [x \in DOMAIN d \cup {name} |-> IF x = name THEN "empty" ELSE d[x]]

OpenHandle(hs, owner) == Append(hs, [owner |-> owner, closes |-> 0])
CloseHandle(hs, i) == [hs EXCEPT ![i].closes = @ + 1]
OpenHandles == {i \in DOMAIN handles : handles[i].closes = 0}

\* a checkError that logs the error and returns (log.Print for log.Fatal)
CheckErrorLogsOnly(e, next) == pc' = next /\ UNCHANGED exitCode

\* checkError(e): log.Fatal (exit status 1, deferred calls do not run) when
\* e is an error, otherwise the run goes on at `next`
CheckError(e, next) ==
    IF e THEN pc' = "fatal" /\ exitCode' = 1
    ELSE pc' = next /\ UNCHANGED exitCode

(* ------------------------------- Init ---------------------------------- *)
Init ==
    /\ variant \in Variants
    /\ startPgF \in 0..MaxFlag
    /\ endPgF \in (-1)..MaxFlag
    /\ appendF \in BOOLEAN
    /\ chunkSizeF \in (-MaxNegChunk)..MaxChunk
    /\ docPages \in 0..MaxPages
    /\ dirExists \in BOOLEAN
    /\ dir \in {[x \in S |-> "old"] : S \in IF dirExists THEN SUBSET OldNames ELSE {{}}}
    /\ dir0 = dir
    /\ pc = "mkdir"
    /\ exitCode = -1
    /\ err = "none"
    /\ totalPages = 0 /\ startPage = 0 /\ endPage = 0 /\ remPages = 0
    /\ curStart = 0 /\ curEnd = 0 /\ count = 0
    /\ n = 0 /\ pcount = 0 /\ fileOpen = FALSE
    /\ handles = <<>>
    /\ rendered = {}
    /\ chunks = <<>>
    /\ progress = <<>>

flagVars == <<variant, startPgF, endPgF, appendF, chunkSizeF, docPages, dir0>>
mainVars == <<totalPages, startPage, endPage, remPages, curStart, curEnd, count>>
chunkVars == <<n, pcount, fileOpen>>
logVars == <<rendered, chunks, progress>>

(* ------------------------------ actions -------------------------------- *)
\* os.MkdirAll(*outDirF, 0755), log.Fatal on an error
MkdirAll ==
    /\ pc = "mkdir"
    /\ \E e \in (IF dirExists THEN {FALSE} ELSE BOOLEAN) :
        /\ dirExists' = (dirExists \/ ~e)
        /\ err' = IF e THEN "mkdir" ELSE err
        /\ IF e THEN pc' = "fatal" /\ exitCode' = 1
           ELSE pc' = "clean" /\ UNCHANGED exitCode
    /\ UNCHANGED <<flagVars, mainVars, chunkVars, logVars, dir, handles>>

\* if !*appendF { if the directory exists { removeAllFiles; checkError } }
CleanOutput ==
    /\ pc = "clean"
    /\ IF ~appendF /\ dirExists
       THEN \E o \in RemoveAllFilesOutcomes(dir) :
               /\ dir' = o.dir
               /\ err' = IF o.e THEN "remove" ELSE err
               /\ CheckError(o.e, "probe_open")
       ELSE /\ pc' = "probe_open"
            /\ UNCHANGED <<dir, err, exitCode>>
    /\ UNCHANGED <<flagVars, mainVars, chunkVars, logVars, dirExists, handles>>

\* doc, err := fitz.New(*inFileF); checkError(err)
ProbeOpen ==
    /\ pc = "probe_open"
    /\ \E e \in BOOLEAN :
        /\ handles' = IF e THEN handles ELSE OpenHandle(handles, 0)
        /\ err' = IF e THEN "open" ELSE err
        /\ CheckError(e, "probe_close")
    /\ UNCHANGED <<flagVars, mainVars, chunkVars, logVars, dirExists, dir>>

\* main without the doc.Close() of the handle that reads the page count
ProbeCloseLeak ==
    /\ pc = "probe_close"
    /\ totalPages' = docPages
    /\ pc' = "bounds"
    /\ UNCHANGED <<variant, startPgF, endPgF, appendF, chunkSizeF, docPages, dir0,
                   startPage, endPage, remPages, curStart, curEnd, count,
                   n, pcount, fileOpen, rendered, chunks, progress,
                   dirExists, dir, exitCode, err, handles>>

\* totalPages := doc.NumPage(); doc.Close()
ProbeClose ==
    /\ pc = "probe_close"
    /\ totalPages' = docPages
    /\ handles' = CloseHandle(handles, Len(handles))
    /\ pc' = "bounds"
    /\ UNCHANGED <<flagVars, startPage, endPage, remPages, curStart, curEnd,
                   count, chunkVars, logVars, dirExists, dir, exitCode, err>>

\* "Determine bounds" and the initialisation of the chunk loop
DetermineBounds ==
    /\ pc = "bounds"
    /\ startPage' = ResolveStart(startPgF, endPgF)
    /\ endPage' = ResolveEnd(endPgF, totalPages)
    /\ remPages' = endPage' - startPage'
    /\ curStart' = startPage'
    /\ curEnd' = FirstCurEnd(variant, startPage', remPages', chunkSizeF, totalPages)
    /\ count' = 0
    /\ pc' = "loop"
    /\ UNCHANGED <<flagVars, totalPages, chunkVars, logVars, dirExists, dir,
                   exitCode, err, handles>>

\* for remPages > 0 { count = processChunk(curStart, curEnd, ...
CallProcessChunk ==
    /\ pc = "loop"
    /\ remPages > 0
    /\ Len(chunks) < MaxIter
    /\ chunks' = Append(chunks, <<curStart, curEnd>>)
    /\ pc' = "chunk_open"
    /\ UNCHANGED <<flagVars, mainVars, chunkVars, rendered, progress, dirExists,
                   dir, exitCode, err, handles>>

\* processChunk: doc, err := fitz.New(f); checkError(err); defer doc.Close()
ChunkOpen ==
    /\ pc = "chunk_open"
    /\ \E e \in BOOLEAN :
        /\ handles' = IF e THEN handles ELSE OpenHandle(handles, Len(chunks))
        /\ err' = IF e THEN "open" ELSE err
        /\ CheckError(e, "page")
    /\ n' = curStart
    /\ pcount' = count
    /\ UNCHANGED <<flagVars, mainVars, fileOpen, logVars, dirExists, dir>>

\* for n < end { (logProgress(n, count) in main.go and part_000);
\*               img, err := doc.Image(n); checkError(err)
RenderPage ==
    /\ pc = "page"
    /\ n < curEnd
    /\ \E lp \in (IF variant = "part_001" THEN {"ok"}
                  ELSE OldLogProgressOutcomes(pcount)) :
        IF lp = "fatal"
        THEN /\ err' = "clear"
             /\ pc' = "fatal"
             /\ exitCode' = 1
             /\ UNCHANGED rendered
        ELSE \E e \in RenderErrors(n) :
                /\ rendered' = IF e THEN rendered
                               ELSE rendered \cup {<<n, Len(handles), Len(chunks)>>}
                /\ err' = IF e THEN "render" ELSE err
                /\ CheckError(e, "create")
    /\ UNCHANGED <<flagVars, mainVars, chunkVars, chunks, progress, dirExists,
                   dir, handles>>

\* f, err := os.Create(filepath.Join(opath, fmt.Sprintf("%03d.jpg", n+1)))
CreateFile ==
    /\ pc = "create"
    /\ \E e \in BOOLEAN :
        /\ dir' = IF e THEN dir ELSE CreateEntry(dir, FileName(n))
        /\ fileOpen' = ~e
        /\ err' = IF e THEN "create" ELSE err
        /\ CheckError(e, "encode")
    /\ UNCHANGED <<flagVars, mainVars, n, pcount, logVars, dirExists, handles>>

\* err = jpeg.Encode(f, img, &jpeg.Options{Quality: 100}); checkError(err)
Encode ==
    /\ pc = "encode"
    /\ \E e \in BOOLEAN :
        /\ dir' = IF e THEN dir ELSE [dir EXCEPT ![FileName(n)] = "jpeg"]
        /\ err' = IF e THEN "encode" ELSE err
        /\ CheckError(e, "page_done")
    /\ UNCHANGED <<flagVars, mainVars, chunkVars, logVars, dirExists, handles>>

\* (part_001: if count%pollFreq == 0 { logProgress(tot, count) });
\* f.Close(); count++; n++
PageDone ==
    /\ pc = "page_done"
    /\ LET tot == endPage - startPage
           polled == variant = "part_001" /\ pcount % pollFreq = 0
       IN  \E lp \in (IF polled THEN LogProgressOutcomes(tot, pcount) ELSE {"ok"}) :
            /\ progress' = IF polled THEN Append(progress, <<tot, pcount>>)
                           ELSE progress
            /\ IF lp = "panic"
               THEN \* the panic runs the deferred doc.Close() and ends the process
                    /\ handles' = CloseHandle(handles, Len(handles))
                    /\ pc' = "panic"
                    /\ exitCode' = 2
                    /\ UNCHANGED <<n, pcount, fileOpen>>
               ELSE /\ fileOpen' = FALSE
                    /\ pcount' = pcount + 1
                    /\ n' = n + 1
                    /\ pc' = "page"
                    /\ UNCHANGED <<handles, exitCode>>
    /\ UNCHANGED <<flagVars, mainVars, rendered, chunks, dirExists, dir, err>>

\* the end of processChunk: (part_001: logProgress(tot, count)); return count,
\* with the deferred doc.Close(); main assigns the result to count
ChunkReturn ==
    /\ pc = "page"
    /\ ~(n < curEnd)
    /\ LET tot == endPage - startPage
           logs == variant = "part_001"
       IN  \E lp \in (IF logs THEN LogProgressOutcomes(tot, pcount) ELSE {"ok"}) :
            /\ progress' = IF logs THEN Append(progress, <<tot, pcount>>)
                           ELSE progress
            /\ handles' = CloseHandle(handles, Len(handles))
            /\ IF lp = "panic"
               THEN pc' = "panic" /\ exitCode' = 2 /\ UNCHANGED count
               ELSE pc' = "advance" /\ count' = pcount /\ UNCHANGED exitCode
    /\ UNCHANGED <<flagVars, totalPages, startPage, endPage, remPages, curStart,
                   curEnd, chunkVars, rendered, chunks, dirExists, dir, err>>

\* remPages -= curEnd - curStart; curStart, curEnd = curEnd, intMin(...)
LoopAdvance ==
    /\ pc = "advance"
    /\ remPages' = remPages - (curEnd - curStart)
    /\ curStart' = curEnd
    /\ curEnd' = NextCurEnd(variant, curEnd, chunkSizeF, totalPages)
    /\ pc' = "loop"
    /\ UNCHANGED <<flagVars, totalPages, startPage, endPage, count, chunkVars,
                   logVars, dirExists, dir, exitCode, err, handles>>

\* the loop is left: (the elapsed time and) the completion marker are printed
Finish ==
    /\ pc = "loop"
    /\ ~(remPages > 0)
    /\ pc' = "done"
    /\ exitCode' = 0
    /\ UNCHANGED <<flagVars, mainVars, chunkVars, logVars, dirExists, dir, err,
                   handles>>

Next ==
    \/ MkdirAll
    \/ CleanOutput
    \/ ProbeOpen
    \/ ProbeClose
    \/ DetermineBounds
    \/ CallProcessChunk
    \/ ChunkOpen
    \/ RenderPage
    \/ CreateFile
    \/ Encode
    \/ PageDone
    \/ ChunkReturn
    \/ LoopAdvance
    \/ Finish

Spec == Init /\ [][Next]_vars

(* ------------------------- derived notions ----------------------------- *)
Terminated == pc \in {"done", "fatal", "panic"}
PreBounds == {"mkdir", "clean", "probe_open", "probe_close", "bounds"}
ChunkLen(i) == chunks[i][2] - chunks[i][1]
ChunkPages == UNION {chunks[i][1]..(chunks[i][2] - 1) : i \in DOMAIN chunks}
Written(d) == {x \in DOMAIN d : d[x] = "jpeg"}
NewEntries(d) == {x \in DOMAIN d : d[x] # "old"}
Requested == endPage - startPage

(* ------------------------------ claims --------------------------------- *)

\* C1: with a chunk size C > 0 and a resolved range [startPage, endPage),
\* the (start, end) pairs passed to processChunk are non-empty, contiguous
\* and increasing, start at startPage, never pass endPage, all have length
\* C except possibly the last; when the loop is left they end at endPage,
\* the last has length (endPage-startPage) mod C (or C), their union is
\* exactly [startPage, endPage), and no page >= endPage is ever rendered.
C1_ChunksPartitionRange ==
    (chunkSizeF > 0 /\ pc \notin PreBounds /\ startPage <= endPage) =>
        LET k == Len(chunks)
        IN  /\ k > 0 => chunks[1][1] = startPage
            /\ \A i \in 1..k : chunks[i][1] < chunks[i][2] /\ chunks[i][2] <= endPage
            /\ \A i \in 1..(k - 1) :
                    chunks[i][2] = chunks[i + 1][1] /\ ChunkLen(i) = chunkSizeF
            /\ \A r \in rendered : r[1] < endPage
            /\ pc = "done" =>
                /\ ChunkPages = startPage..(endPage - 1)
                /\ k > 0 =>
                    /\ chunks[k][2] = endPage
                    /\ ChunkLen(k) = IF Requested % chunkSizeF = 0 THEN chunkSizeF
                                     ELSE Requested % chunkSizeF

\* C2: once main has resolved the bounds, 0 <= startPage <= endPage <= totalPages
\* (the flags are drawn with -s >= 0 and -e >= -1).
C2_BoundsOrdered ==
    pc \notin PreBounds =>
        0 <= startPage /\ startPage <= endPage /\ endPage <= totalPages

\* C3: in part_001 with a chunk size > 0, the running counter is never
\* negative, counts the pages written, and when the chunk loop has ended
\* without an error it equals endPage - startPage.
C3_CountIsRequested ==
    (variant = "part_001" /\ chunkSizeF > 0) =>
        /\ count >= 0
        /\ pc \in {"loop", "done"} => count = Cardinality(rendered)
        /\ pc = "done" => count = Requested

\* C4: a renderer handle opened by processChunk is never closed twice, and
\* when the run has ended, however it ended, each has been closed exactly once.
C4_ChunkHandlesClosedOnce ==
    \A i \in DOMAIN handles :
        handles[i].owner > 0 =>
            /\ handles[i].closes <= 1
            /\ Terminated => handles[i].closes = 1

\* C7: in part_001 with a chunk size > 0, every call logProgress(tot, cur)
\* has tot > 0 and 0 <= cur <= tot, so that the filled length is in 0..20.
C7_ProgressInRange ==
    (variant = "part_001" /\ chunkSizeF > 0) =>
        \A i \in DOMAIN progress :
            LET tot == progress[i][1]
                cur == progress[i][2]
            IN  /\ tot > 0
                /\ 0 <= cur /\ cur <= tot
                /\ SymCnt(tot, cur) \in 0..SYMBOL_WIDTH

\* C8: in part_001 with a chunk size > 0, a run in which no call returned an
\* error never stops before the completion marker is printed (it can always
\* take a next step until then), and a run over an empty range completes
\* after zero chunks, zero files and zero progress reports.
C8_CompletesNormally ==
    (variant = "part_001" /\ chunkSizeF > 0 /\ err = "none") =>
        /\ pc = "done" \/ ENABLED Next
        /\ (pc = "done" /\ endPage <= startPage) =>
                chunks = <<>> /\ NewEntries(dir) = {} /\ progress = <<>>

\* C10: whatever the value of -c, every chunk handed to processChunk was
\* cut with a positive chunk size and holds between 1 and chunkSize pages.
C10_ChunksNonEmpty ==
    \A i \in DOMAIN chunks :
        chunkSizeF > 0 /\ 1 <= ChunkLen(i) /\ ChunkLen(i) <= chunkSizeF

\* C5: at most one renderer handle is open at any time; the handle that
\* reads the page count renders nothing; every page is rendered through the
\* handle its own chunk opened, and no two handles belong to the same chunk.
C5_OneHandleLive ==
    /\ Cardinality(OpenHandles) <= 1
    /\ \A r \in rendered :
        /\ handles[r[2]].owner = r[3]
        /\ handles[r[2]].owner > 0
    /\ \A i, j \in DOMAIN handles :
        (handles[i].owner > 0 /\ handles[i].owner = handles[j].owner) => i = j
    /\ \A i \in DOMAIN handles : i < Len(handles) => handles[i].closes >= 1

\* the second chunk is rendering through its own handle, after the first
\* chunk rendered through another one
C5_Witness ==
    /\ Len(chunks) = 2
    /\ pc = "create"
    /\ Cardinality(OpenHandles) = 1
    /\ \E r1, r2 \in rendered : r1[3] = 1 /\ r2[3] = 2 /\ r1[2] # r2[2]

\* C6: once a call has returned an error the run has ended with exit status
\* 1 (not 0): nothing is rendered, created, opened or started afterwards and
\* the completion marker is not printed; the step at which the error is
\* returned, and any later one, keeps every output file already written.
C6_FailFast ==
    /\ [](err # "none" => (pc = "fatal" /\ exitCode = 1))
    /\ [][err # "none" =>
            /\ rendered' = rendered /\ dir' = dir /\ chunks' = chunks
            /\ handles' = handles /\ pc' # "done"]_vars
    /\ [][err' # "none" => \A x \in Written(dir) : x \in Written(dir')]_vars

\* encoding the second page failed after the first page was fully written
C6_Witness ==
    /\ err = "encode"
    /\ pc = "fatal"
    /\ Written(dir) # {}
    /\ Cardinality(rendered) = 2

\* C9: past the MkdirAll step the directory exists (unless MkdirAll itself
\* failed); without -a, no entry of the startup directory is left once a
\* renderer handle has been opened or a page file created; with -a the
\* startup step leaves the directory as it was and no entry ever disappears.
C9_OutputDirOrdering ==
    /\ (pc # "mkdir" /\ err # "mkdir") => dirExists
    /\ (~appendF /\ (handles # <<>> \/ NewEntries(dir) # {})) =>
            \A x \in DOMAIN dir : dir[x] # "old"
    /\ appendF =>
        /\ DOMAIN dir0 \subseteq DOMAIN dir
        /\ pc \in {"clean", "probe_open", "probe_close"} => dir = dir0

\* without -a, a directory that held two entries holds exactly the page
\* written by the run
C9_Witness ==
    /\ ~appendF
    /\ DOMAIN dir0 = OldNames
    /\ Written(dir) # {}
    /\ DOMAIN dir = NewEntries(dir)

====
